---------------------------- MODULE Spec2Model ----------------------------
(***************************************************************************)
(* Model of the TenorGIFUploader scripts (src/main.py, src/cerebras.py,    *)
(* src/tenorgif.py): the batch loop of process_tenor_upload, the tag       *)
(* generator setup_gemini / setup_cerebras, and process_single_video with  *)
(* the main loop over the extracted URLs.                                  *)
(***************************************************************************)
EXTENDS Integers, Sequences, FiniteSets, TLC

VARIABLES
    pc,             \* position of the single thread of control
    typed_urls,     \* the URLs the user typed on the input line, in order
    user_input,     \* argument of extract_urls_from_input: the input line
    found_urls,     \* what extract_urls_from_input returned
    name,           \* argument of sanitize_filename
    folder_name,    \* what sanitize_filename returned, the stem of folder_name
    script,         \* which script runs: "main", "cerebras" or "tenorgif"
    urls,           \* ALL_VIDEO_URLS: the media behind each extracted URL, in input order
    i,              \* CURRENT_VIDEO_INDEX, 1-based
    successful_processed,
    results,        \* what process_single_video returned for each URL so far
    disk,           \* disk[m]: the k with a file output_k.gif in the output directory of media m
    dirs,           \* the media whose output directory exists
    video_tags,     \* the tag hints the download returned for the current media
    found,          \* existing_gif_count of check_existing_gifs for the current media
    segmented,      \* whether video_to_gifs was invoked for the current media
    counted,        \* whether that invocation computed num_clips
    start_disk,     \* disk[m] of the current media when its processing began
    N,              \* global N: number of GIFs the upload session works on
    TAGS,           \* global TAGS
    gen,            \* what the text-generation service did in setup_gemini / setup_cerebras
    batch_size,     \* local of process_tenor_upload (3 in main.py/tenorgif.py, 2 in cerebras.py)
    total_batches,  \* local of process_tenor_upload
    batch_num,      \* loop variable of the batch loop
    start_file,     \* local of the batch loop
    end_file,       \* local of the batch loop
    plan,           \* the (batch_num, start_file, end_file) triples the loop computed so far
    calls           \* the calls made to the UI collaborators in this session, in order

inputVars == <<typed_urls, user_input, found_urls, name, folder_name>>
runVars == <<script, urls, i, successful_processed, results>>
fsVars == <<disk, dirs>>
videoVars == <<video_tags, found, segmented, counted, start_disk>>
tagVars == <<TAGS, gen>>
loopVars == <<batch_size, total_batches, batch_num, start_file, end_file, plan>>

vars == <<pc, inputVars, runVars, fsVars, videoVars, N, tagVars, loopVars, calls>>

----------------------------------------------------------------------------
(* Bounds of the model *)

MaxN == 7
MaxBatchSize == 4
MaxVideos == 2

\* one output directory per video title; two media let a list of URLs name a
\* media again and name a new one
Media == {1, 2}

\* no input line was read and no file name was sanitized
NoInput ==
    /\ typed_urls = <<>>
    /\ user_input = <<>>
    /\ found_urls = <<>>
    /\ name = <<>>
    /\ folder_name = <<>>

\* gen before the text-generation service was called
NoGen == [raised |-> FALSE, text |-> <<>>, called |-> FALSE]

----------------------------------------------------------------------------
(* Arithmetic helpers *)

Min(a, b) == IF a < b THEN a ELSE b

\* a ceiling that rounds an exact quotient up as well
CeilDivUp(a, b) == (a \div b) + 1

\* math.ceil(N / batch_size) for a non-negative N and a positive batch_size
CeilDiv(a, b) == IF a % b = 0 THEN a \div b ELSE (a \div b) + 1

----------------------------------------------------------------------------
(* Text: a string is the sequence of its characters *)

Whitespace == {" ", "\n", "\t"}

\* str.replace(ch, "")
RemoveChar(t, ch) == SelectSeq(t, LAMBDA c : c # ch)

\* str.strip(): from the first to the last character that is not whitespace
Strip(t) ==
    LET keep == {k \in 1..Len(t) : t[k] \notin Whitespace}
    IN IF keep = {} THEN <<>>
       ELSE SubSeq(t, CHOOSE k \in keep : \A j \in keep : k <= j,
                      CHOOSE k \in keep : \A j \in keep : j <= k)

\* str.split(","): the pieces between the commas, at least one piece
SplitComma(t) ==
    LET commas == {k \in 1..Len(t) : t[k] = ","}
        \* position of the j-th comma; 0 before the first, Len(t) + 1 after the last
        At(j) == IF j = 0 THEN 0
                 ELSE IF j > Cardinality(commas) THEN Len(t) + 1
                 ELSE CHOOSE k \in commas : Cardinality({c \in commas : c <= k}) = j
    IN [j \in 1..(Cardinality(commas) + 1) |-> SubSeq(t, At(j - 1) + 1, At(j) - 1)]

InSeq(x, q) == \E k \in 1..Len(q) : q[k] = x

\* a slice that keeps everything
TakeAll(q, n) == q

\* seq[:n]
Take(q, n) == SubSeq(q, 1, Min(n, Len(q)))

----------------------------------------------------------------------------
(* The tag generator: setup_gemini / setup_cerebras *)

TagTarget == 14

\* default_tags of the try branch, and the list of the else branch of the handler
DefaultTags ==
    << <<"#", "g", "i", "f">>,
       <<"#", "a", "n", "i", "m", "a", "t", "i", "o", "n">>,
       <<"#", "f", "u", "n", "n", "y">>,
       <<"#", "m", "e", "m", "e">>,
       <<"#", "t", "r", "e", "n", "d", "i", "n", "g">>,
       <<"#", "v", "i", "r", "a", "l">>,
       <<"#", "e", "n", "t", "e", "r", "t", "a", "i", "n", "m", "e", "n", "t">>,
       <<"#", "c", "o", "m", "e", "d", "y">>,
       <<"#", "d", "a", "n", "c", "e">>,
       <<"#", "v", "i", "r", "a", "l", "v", "i", "d", "e", "o">>,
       <<"#", "f", "u", "n">>,
       <<"#", "l", "o", "l">>,
       <<"#", "p", "o", "p", "u", "l", "a", "r">>,
       <<"#", "f", "y", "p">> >>

\* the list the exception handler extends the video tags with
FallbackExtension ==
    << <<"#", "g", "i", "f">>,
       <<"#", "a", "n", "i", "m", "a", "t", "i", "o", "n">>,
       <<"#", "f", "u", "n", "n", "y">>,
       <<"#", "m", "e", "m", "e">>,
       <<"#", "t", "r", "e", "n", "d", "i", "n", "g">>,
       <<"#", "v", "i", "r", "a", "l">> >>

\* [tag.strip() for tag in text_response.replace("\n", "").split(",") if tag.strip()]
StripNonEmpty(pieces) ==
    SelectSeq([k \in 1..Len(pieces) |-> Strip(pieces[k])], LAMBDA piece : piece # <<>>)

ParseTags(text) == StripNonEmpty(SplitComma(RemoveChar(Strip(text), "\n")))

\* for tag in default_tags: if tag not in TAGS and len(TAGS) < 14: TAGS.append(tag)
RECURSIVE PadWithDefaults(_, _)
PadWithDefaults(tags, defaults) ==
    IF defaults = <<>> THEN tags
    ELSE IF ~InSeq(Head(defaults), tags) /\ Len(tags) < TagTarget
         THEN PadWithDefaults(Append(tags, Head(defaults)), Tail(defaults))
         ELSE PadWithDefaults(tags, Tail(defaults))

\* the try branch after the service answered with text
GeneratedTags(text) ==
    IF Len(ParseTags(text)) < TagTarget
    THEN PadWithDefaults(ParseTags(text), DefaultTags)
    ELSE Take(ParseTags(text), TagTarget)

\* f"#{tag.replace(' ', '')}"
HashTag(tag) == <<"#">> \o RemoveChar(tag, " ")

\* a handler that leaves the tag list empty
FallbackTagsNone(hints) == <<>>

\* the except branch
FallbackTags(hints) ==
    IF hints # <<>>
    THEN LET hashed == [k \in 1..Len(Take(hints, TagTarget)) |-> HashTag(hints[k])]
         IN IF Len(hashed) < TagTarget
            THEN Take(hashed \o FallbackExtension, TagTarget)
            ELSE hashed
    ELSE DefaultTags

\* setup_gemini(video_title, video_description, video_tags), called first in
\* process_tenor_upload: g is what the service did (raised, or answered with text)
SetupTags(g) ==
    /\ pc = "setup_tags"
    /\ gen' = g
    /\ TAGS' = (IF g.raised THEN FallbackTags(video_tags) ELSE GeneratedTags(g.text))
    /\ pc' = "navigate"
    /\ UNCHANGED <<inputVars, runVars, fsVars, videoVars, N, loopVars, calls>>

----------------------------------------------------------------------------
(* What the text-generation service and the download can hand to the generator *)

MaxGenTags == 16
MaxHints == 15

Digit(d) == <<"0", "1", "2", "3", "4", "5", "6", "7", "8", "9">>[d + 1]

RECURSIVE NumChars(_)
NumChars(k) == IF k < 10 THEN <<Digit(k)>> ELSE Append(NumChars(k \div 10), Digit(k % 10))

RECURSIVE Join(_, _)
Join(q, sep) ==
    IF q = <<>> THEN <<>>
    ELSE IF Len(q) = 1 THEN Head(q)
    ELSE Head(q) \o sep \o Join(Tail(q), sep)

\* a hashtag that is in no default list
NovelTag(k) == <<"#", "t">> \o NumChars(k)

\* the k-th tag of an answer: all new, every other one a default tag, or all the same
AnswerTag(pool, k) ==
    IF pool = "novel" THEN NovelTag(k)
    ELSE IF pool = "mixed"
         THEN (IF k % 2 = 1 THEN DefaultTags[(k % Len(DefaultTags)) + 1] ELSE NovelTag(k))
    ELSE NovelTag(1)

Pools == {"novel", "mixed", "same"}

\* comma, comma and space with a final newline, comma and newline, empty pieces
\* between the tags, and the wrong delimiter
Separators == {<<",">>, <<",", " ">>, <<",", "\n">>, <<",", " ", ",">>, <<" ">>}

AnswerText(pool, n, sep) ==
    <<" ">> \o Join([k \in 1..n |-> AnswerTag(pool, k)], sep) \o <<"\n">>

GenTexts == {AnswerText(pool, n, sep) : pool \in Pools, n \in 0..MaxGenTags, sep \in Separators}

Answered(text) == [raised |-> FALSE, text |-> text, called |-> TRUE]

Raised == [raised |-> TRUE, text |-> <<>>, called |-> TRUE]

GenOutcomes == {Raised} \cup {Answered(t) : t \in GenTexts}

\* info.get('tags', []): "gif", "me me", then tags that are in no default list
Hint(k) ==
    IF k = 1 THEN <<"g", "i", "f">>
    ELSE IF k = 2 THEN <<"m", "e", " ", "m", "e">>
    ELSE <<"h", " ">> \o NumChars(k)

HintList(n) == [k \in 1..n |-> Hint(k)]

HintLists == {HintList(n) : n \in 0..MaxHints}

----------------------------------------------------------------------------
(* The tag generator on its own *)

InitTags ==
    /\ pc = "setup_tags"
    /\ video_tags \in HintLists
    /\ N = 0
    /\ script = "main"
    /\ urls = <<1>>
    /\ i = 1
    /\ successful_processed = 0
    /\ results = <<>>
    /\ disk = [m \in Media |-> {}]
    /\ dirs = {}
    /\ found = 0
    /\ segmented = FALSE
    /\ counted = FALSE
    /\ NoInput
    /\ start_disk = {}
    /\ TAGS = <<>>
    /\ gen = NoGen
    /\ batch_size = 0
    /\ total_batches = 0
    /\ batch_num = 0
    /\ start_file = 0
    /\ end_file = 0
    /\ plan = <<>>
    /\ calls = <<>>

NextTags == \E g \in GenOutcomes : SetupTags(g)

SpecTags == InitTags /\ [][NextTags]_vars

TagsReturned == gen.called

\* C6: after the tag generator returned, TAGS holds exactly 14 non-empty strings,
\* whatever the generation call did and whatever the tag hints are.
C6_AlwaysFourteen ==
    TagsReturned =>
        /\ Len(TAGS) = TagTarget
        /\ \A k \in 1..Len(TAGS) : TAGS[k] # <<>>

\* the tags of the answer, in the order of the answer
Generated == ParseTags(gen.text)

\* the entries of TAGS after the generated ones
Padding == SubSeq(TAGS, Len(Generated) + 1, Len(TAGS))

DefaultPos(tag) == CHOOSE j \in 1..Len(DefaultTags) : DefaultTags[j] = tag

\* C20: after a generation call that succeeded, TAGS is the first 14 generated
\* tags when there are 14 or more; otherwise it has 14 entries, the generated
\* tags in their order followed by entries of the default list in the order of
\* that list, none of them among the generated tags, and no default before the
\* last one used is left out unless it is among the generated tags.
C20_GeneratedThenDefaults ==
    (TagsReturned /\ ~gen.raised) =>
        IF Len(Generated) >= 14
        THEN TAGS = SubSeq(Generated, 1, 14)
        ELSE /\ Len(TAGS) = 14
             /\ SubSeq(TAGS, 1, Len(Generated)) = Generated
             /\ \A k \in 1..Len(Padding) :
                    /\ InSeq(Padding[k], DefaultTags)
                    /\ ~InSeq(Padding[k], Generated)
                    /\ k > 1 => DefaultPos(Padding[k - 1]) < DefaultPos(Padding[k])
             /\ \A j \in 1..DefaultPos(Padding[Len(Padding)]) :
                    InSeq(DefaultTags[j], Padding) \/ InSeq(DefaultTags[j], Generated)

\* an answer of fewer than 14 tags, one of them a default tag that is not the
\* first of the default list
C20_Witness ==
    /\ TagsReturned
    /\ ~gen.raised
    /\ Len(Generated) \in 1..13
    /\ \E j \in 2..Len(DefaultTags) : InSeq(DefaultTags[j], Generated)
    /\ InSeq(DefaultTags[1], Padding)

\* how many entries of TAGS the generator had before it appended defaults
BeforePadding ==
    IF gen.raised THEN Min(Len(video_tags), TagTarget) ELSE Min(Len(Generated), TagTarget)

\* C30: on every path through the tag generator, the exception path included, no
\* default tag is appended to a TAGS that already holds the same tag: an entry
\* that was appended as padding equals no entry before it.
C30_PaddingAddsNoDuplicate ==
    TagsReturned =>
        \A k \in (BeforePadding + 1)..Len(TAGS) :
            \A j \in 1..(k - 1) : TAGS[j] # TAGS[k]

----------------------------------------------------------------------------
(* The upload session: process_tenor_upload *)

\* a call of a UI collaborator: nav says that select_files navigated to the
\* artifact directory, tripped that the fail-safe of pyautogui ended it, pasted
\* is the text apply_tags pasted into each tag field, in the order of the fields
Call(op, ok) == [op |-> op, batch |-> batch_num, start |-> start_file,
                 end |-> end_file, ok |-> ok, nav |-> FALSE, tripped |-> FALSE,
                 pasted |-> <<>>]

\* batch_size = ...; total_batches = math.ceil(N / batch_size), then the loop starts
CalcBatches(bs) ==
    /\ pc = "calc"
    /\ batch_size' = bs
    /\ total_batches' = CeilDiv(N, bs)
    /\ batch_num' = 0
    /\ pc' = "loop"
    /\ UNCHANGED <<start_file, end_file, plan>>
    /\ UNCHANGED <<inputVars, runVars, fsVars, videoVars, N, tagVars, calls>>

\* a start index without the + 1
StartFileOffByOne(b, bs) == b * bs

\* start_file = (batch_num * batch_size) + 1
StartFile(b, bs) == (b * bs) + 1

\* an end index that is not clamped to N
EndFileNoClamp(b, bs, n) == (b + 1) * bs

\* end_file = min((batch_num + 1) * batch_size, N)
EndFile(b, bs, n) == Min((b + 1) * bs, n)

\* for batch_num in range(total_batches): focus click, file range, click_upload_area()
LoopHead ==
    /\ pc = "loop"
    /\ IF batch_num < total_batches
       THEN /\ start_file' = StartFile(batch_num, batch_size)
            /\ end_file' = EndFile(batch_num, batch_size, N)
            /\ plan' = Append(plan, [ordinal |-> batch_num,
                                     start |-> StartFile(batch_num, batch_size),
                                     end |-> EndFile(batch_num, batch_size, N)])
            /\ pc' = "select"
       ELSE /\ pc' = "done"
            /\ UNCHANGED <<start_file, end_file, plan>>
    /\ UNCHANGED <<batch_size, total_batches, batch_num>>
    /\ UNCHANGED <<inputVars, runVars, fsVars, videoVars, N, tagVars, calls>>

\* a loop that leaves out every other batch
NextBatchNumSkip(b) == b + 2

\* a loop variable that stays where it is
NextBatchNumStay(b) == b

\* for batch_num in range(total_batches): the next value of the loop variable
NextBatchNum(b) == b + 1

\* a directory navigation in every batch
NavigatesDirectoryAlways(b) == TRUE

\* if batch_num == 0: type the directory path into the dialog and press enter
NavigatesDirectory(b) == b = 0

\* What a call of open_files_batch_new does: it returns True, or a step in its
\* try raises (reached: the step comes after the branch on batch_num; tripped:
\* the exception is pyautogui.FailSafeException) and it returns False.
SelectOutcome(ok, reached, tripped) == [ok |-> ok, reached |-> reached, tripped |-> tripped]

SelectOutcomes ==
    {SelectOutcome(TRUE, TRUE, FALSE)}
        \cup {SelectOutcome(FALSE, r, t) : r \in BOOLEAN, t \in BOOLEAN}

\* in a run over several URLs: True, or the file dialog is not found
RunSelectOutcomes == {SelectOutcome(TRUE, TRUE, FALSE), SelectOutcome(FALSE, FALSE, FALSE)}

\* if open_files_batch_new(start_file, end_file, output_dir, batch_num): ... else: print(...)
\* open_files_batch_new catches every Exception of its body and returns False;
\* the else branch only prints, so the for loop goes on with the next batch_num.
SelectFiles(o) ==
    /\ pc = "select"
    /\ calls' = Append(calls, [Call("select_files", o.ok) EXCEPT
                                !.nav = o.reached /\ NavigatesDirectory(batch_num),
                                !.tripped = o.tripped])
    /\ IF o.ok
       THEN /\ pc' = "tag"
            /\ UNCHANGED batch_num
       ELSE /\ pc' = "loop"
            /\ batch_num' = NextBatchNum(batch_num)
    /\ UNCHANGED <<batch_size, total_batches, start_file, end_file, plan>>
    /\ UNCHANGED <<inputVars, runVars, fsVars, videoVars, N, tagVars>>

\* a last-batch test that never finds the last batch
NotLastBatchAlways(b, total) == TRUE

\* if batch_num < total_batches - 1
NotLastBatch(b, total) == b < total - 1

\* a paste that leaves out the safety fields
SlotCountMainOnly(sc) == 3

\* coordinates: 3 tag fields and 1 safety field, 2 safety fields in cerebras.py
SlotCount(sc) == IF sc = "cerebras" THEN 5 ELSE 4

\* all_tags_string = " ".join(TAGS)
AllTagsString(tags) == Join(tags, <<" ">>)

\* for i in range(4): click the field, pyperclip.copy(all_tags_string), ctrl+v
PasteTags(sc, tags) == [slot \in 1..SlotCount(sc) |-> AllTagsString(tags)]

\* pyautogui.click(1844, 978); paste_tags_at_coordinates(); then the last-batch test
ApplyTags ==
    /\ pc = "tag"
    /\ calls' = Append(calls, [Call("apply_tags", TRUE) EXCEPT
                                !.pasted = PasteTags(script, TAGS)])
    /\ IF NotLastBatch(batch_num, total_batches)
       THEN /\ pc' = "advance"
            /\ UNCHANGED batch_num
       ELSE /\ pc' = "loop"
            /\ batch_num' = NextBatchNum(batch_num)
    /\ UNCHANGED <<batch_size, total_batches, start_file, end_file, plan>>
    /\ UNCHANGED <<inputVars, runVars, fsVars, videoVars, N, tagVars>>

\* wait_and_refresh(), then the next iteration
Advance ==
    /\ pc = "advance"
    /\ calls' = Append(calls, Call("advance", TRUE))
    /\ batch_num' = NextBatchNum(batch_num)
    /\ pc' = "loop"
    /\ UNCHANGED <<batch_size, total_batches, start_file, end_file, plan>>
    /\ UNCHANGED <<inputVars, runVars, fsVars, videoVars, N, tagVars>>

----------------------------------------------------------------------------
(* process_single_video and the main loop *)

MaxClips == 3

\* what an earlier run left in the output directory of the first media
InitialArtifacts == {{}, {1}}

MainBatchSize == 3
CerebrasBatchSize == 2

Scripts == {"main", "cerebras", "tenorgif"}

BatchSizeOf(sc) == IF sc = "cerebras" THEN CerebrasBatchSize ELSE MainBatchSize

\* tenorgif.py reads one URL; main.py and cerebras.py loop over the extracted URLs
\* (media are numbered in the order of their first URL)
UrlLists(sc) ==
    IF sc = "tenorgif" THEN {<<1>>}
    ELSE {u \in UNION {[1..n -> Media] : n \in 1..MaxVideos} :
            \A k \in 1..Len(u) : u[k] = 1 \/ \E j \in 1..(k - 1) : u[j] = u[k] - 1}

CurMedia == urls[i]

\* a main loop that ends with the URL at hand
MoreUrlsNever(sc, idx, n) == FALSE

\* for i, url in enumerate(ALL_VIDEO_URLS): another URL follows the one at index
\* idx of n; tenorgif.py reads one URL and has no loop
MoreUrls(sc, idx, n) == sc # "tenorgif" /\ idx < n

\* process_single_video returns ret (its locals are gone), and the main loop goes
\* on with the next URL; tenorgif.py has no loop and no counter
Finish(ret) ==
    /\ results' = Append(results, ret)
    /\ successful_processed' =
         (IF ret /\ script # "tenorgif" THEN successful_processed + 1 ELSE successful_processed)
    /\ IF MoreUrls(script, i, Len(urls))
       THEN i' = i + 1 /\ pc' = "download"
       ELSE i' = i /\ pc' = "exit"
    /\ video_tags' = <<>>
    /\ found' = 0
    /\ segmented' = FALSE
    /\ counted' = FALSE
    /\ start_disk' = {}
    /\ gen' = NoGen
    /\ batch_size' = 0
    /\ total_batches' = 0
    /\ batch_num' = 0
    /\ start_file' = 0
    /\ end_file' = 0
    /\ plan' = <<>>
    /\ calls' = <<>>
    /\ UNCHANGED <<inputVars, script, urls, fsVars, N, TAGS>>

\* the tag hints a download returns
PipelineHints == {HintList(1)}

\* download_video_from_url(url) and the test on its result
Download ==
    /\ pc = "download"
    /\ \E ok \in BOOLEAN :
        IF ok
        THEN /\ \E hints \in PipelineHints : video_tags' = hints
             /\ start_disk' = disk[CurMedia]
             /\ pc' = (IF script = "tenorgif" THEN "segment" ELSE "check")
             /\ UNCHANGED <<inputVars, runVars, fsVars, found, segmented, counted, N, tagVars, loopVars, calls>>
        ELSE Finish(FALSE)

\* check_existing_gifs(final_output_dir) and the branch on gifs_exist;
\* listed is FALSE when os.listdir raises
CheckExisting ==
    /\ pc = "check"
    /\ \E listed \in (IF CurMedia \in dirs THEN BOOLEAN ELSE {TRUE}) :
        IF CurMedia \in dirs /\ listed /\ disk[CurMedia] # {}
        THEN /\ found' = Cardinality(disk[CurMedia])
             /\ N' = Cardinality(disk[CurMedia])
             /\ pc' = "setup_tags"
        ELSE /\ found' = 0
             /\ pc' = "segment"
             /\ UNCHANGED N
    /\ UNCHANGED <<inputVars, runVars, fsVars, video_tags, segmented, counted, start_disk,
                 tagVars, loopVars, calls>>

\* robust_directory_creation(output_dir): True, the fallback directory (truthy,
\* the requested directory is missing), or False
DirOutcomes(sc, m) ==
    IF m \in dirs THEN {"ok"}
    ELSE IF sc = "tenorgif" THEN {"ok", "raise"}
    ELSE {"ok", "fallback", "fail"}

\* num_clips = math.ceil(duration / clip_length); cerebras.py returns early
\* unless the usable duration is positive
ClipCounts(sc) == IF sc = "cerebras" THEN 1..MaxClips ELSE 0..MaxClips

\* video_to_gifs(downloaded_video_path, final_output_dir); its result is not used
VideoToGifs ==
    /\ pc = "segment"
    /\ segmented' = TRUE
    /\ \E d \in DirOutcomes(script, CurMedia) :
        \/ /\ d = "raise"
           /\ pc' = "exit"
           /\ counted' = FALSE
           /\ UNCHANGED <<fsVars, N>>
        \/ /\ d = "fail"
           /\ pc' = "setup_tags"
           /\ counted' = FALSE
           /\ UNCHANGED <<fsVars, N>>
        \/ /\ d \in {"ok", "fallback"}
           /\ dirs' = (IF d = "ok" THEN dirs \cup {CurMedia} ELSE dirs)
           /\ pc' = "setup_tags"
           /\ \/ \* the duration cannot be read, or is too short
                 /\ counted' = FALSE
                 /\ UNCHANGED <<disk, N>>
              \/ \E num_clips \in ClipCounts(script) :
                 \E created \in (IF d = "ok" THEN SUBSET (1..num_clips) ELSE {{}}) :
                    /\ counted' = TRUE
                    /\ N' = num_clips
                    /\ disk' = [disk EXCEPT ![CurMedia] = @ \cup created]
    /\ UNCHANGED <<inputVars, runVars, video_tags, found, start_disk, tagVars, loopVars, calls>>

\* what the service does in an upload session: it raises, answers with 14 tags,
\* or answers with no tag at all
PipelineGens ==
    {Raised, Answered(AnswerText("novel", TagTarget, <<",", " ">>)),
     Answered(AnswerText("novel", 0, <<",", " ">>))}

\* in a run over several URLs the service answers (SpecUpload has it raise as well)
RunGens == {Answered(AnswerText("novel", TagTarget, <<",", " ">>))}

\* navigate_to_tenor()
Navigate ==
    /\ pc = "navigate"
    /\ calls' = Append(calls, Call("navigate", TRUE))
    /\ pc' = "calc"
    /\ UNCHANGED <<inputVars, runVars, fsVars, videoVars, N, tagVars, loopVars>>

\* process_tenor_upload returned: return True
ReturnTrue ==
    /\ pc = "done"
    /\ Finish(TRUE)

\* An exception leaves process_tenor_upload (KeyboardInterrupt anywhere, or a
\* pyautogui exception such as FailSafeException raised by a step outside the try
\* of open_files_batch_new) and reaches except KeyboardInterrupt / except
\* Exception of the caller: return False
Interrupt ==
    /\ pc \in {"setup_tags", "navigate", "loop", "select", "tag", "advance"}
    /\ Finish(FALSE)

Init ==
    /\ pc = "download"
    /\ script \in Scripts
    /\ urls \in UrlLists(script)
    /\ i = 1
    /\ successful_processed = 0
    /\ results = <<>>
    /\ \E d \in InitialArtifacts : disk = [m \in Media |-> IF m = 1 THEN d ELSE {}]
    /\ dirs = {m \in Media : disk[m] # {}}
    /\ video_tags = <<>>
    /\ found = 0
    /\ segmented = FALSE
    /\ counted = FALSE
    /\ NoInput
    /\ start_disk = {}
    /\ N = 0
    /\ TAGS = <<>>
    /\ gen = NoGen
    /\ batch_size = 0
    /\ total_batches = 0
    /\ batch_num = 0
    /\ start_file = 0
    /\ end_file = 0
    /\ plan = <<>>
    /\ calls = <<>>

Next ==
    \/ Download
    \/ CheckExisting
    \/ VideoToGifs
    \/ \E g \in RunGens : SetupTags(g)
    \/ Navigate
    \/ CalcBatches(BatchSizeOf(script))
    \/ LoopHead
    \/ \E o \in RunSelectOutcomes : SelectFiles(o)
    \/ ApplyTags
    \/ Advance
    \/ Interrupt
    \/ ReturnTrue

Spec == Init /\ [][Next]_vars

----------------------------------------------------------------------------
(* One upload session, process_tenor_upload, for every artifact count and batch size *)

\* process_tenor_upload is entered by script sc for a media with N artifacts
SessionStart(sc) ==
    /\ pc = "setup_tags"
    /\ N \in 0..MaxN
    /\ script = sc
    /\ urls = <<1>>
    /\ i = 1
    /\ successful_processed = 0
    /\ results = <<>>
    /\ disk = [m \in Media |-> IF m = 1 THEN 1..N ELSE {}]
    /\ dirs = {1}
    /\ video_tags \in PipelineHints
    /\ found = N
    /\ segmented = FALSE
    /\ counted = FALSE
    /\ NoInput
    /\ start_disk = 1..N
    /\ TAGS = <<>>
    /\ gen = NoGen
    /\ batch_size = 0
    /\ total_batches = 0
    /\ batch_num = 0
    /\ start_file = 0
    /\ end_file = 0
    /\ plan = <<>>
    /\ calls = <<>>

InitSession == SessionStart("main")

NextSession ==
    \/ \E g \in PipelineGens : SetupTags(g)
    \/ Navigate
    \/ \E bs \in 1..MaxBatchSize : CalcBatches(bs)
    \/ LoopHead
    \/ \E o \in SelectOutcomes : SelectFiles(o)
    \/ ApplyTags
    \/ Advance
    \/ Interrupt

SpecSession == InitSession /\ [][NextSession]_vars

----------------------------------------------------------------------------
(* One upload session of each script, with the batch size the script sets *)

InitUpload == \E sc \in Scripts : SessionStart(sc)

NextUpload ==
    \/ \E g \in PipelineGens : SetupTags(g)
    \/ Navigate
    \/ CalcBatches(BatchSizeOf(script))
    \/ LoopHead
    \/ \E o \in SelectOutcomes : SelectFiles(o)
    \/ ApplyTags
    \/ Advance
    \/ Interrupt

SpecUpload == InitUpload /\ [][NextUpload]_vars

----------------------------------------------------------------------------
(* Properties of the batch loop *)

BatchLen(b) == b.end - b.start + 1

\* the calls of select_files, apply_tags and advance, in order
BatchCalls == SelectSeq(calls, LAMBDA c : c.op # "navigate")

RECURSIVE SumLen(_)
SumLen(p) == IF p = <<>> THEN 0 ELSE BatchLen(Head(p)) + SumLen(Tail(p))

LoopFinished == pc = "done"

\* process_tenor_upload is past the tag generator
SessionPcs == {"navigate", "calc", "loop", "select", "tag", "advance", "done"}

\* the batch loop of process_tenor_upload is running or has run through
InLoop == pc \in {"loop", "select", "tag", "advance", "done"}

\* C1: for N >= 1 and batch_size >= 1 the (start_file, end_file) ranges the batch
\* loop computes come in ascending order without overlap or gap, starting at 1,
\* each non-empty and of size <= batch_size; once the loop has run through they
\* end at N, every index of 1..N lies in exactly one of them and the sizes sum to N.
C1_RangesPartition ==
    (N >= 1 /\ InLoop) =>
        /\ \A k \in 1..Len(plan) :
            /\ plan[k].start = (IF k = 1 THEN 1 ELSE plan[k - 1].end + 1)
            /\ plan[k].start <= plan[k].end
            /\ BatchLen(plan[k]) <= batch_size
        /\ LoopFinished =>
            /\ Len(plan) >= 1
            /\ plan[Len(plan)].end = N
            /\ \A a \in 1..N :
                Cardinality({k \in 1..Len(plan) : plan[k].start <= a /\ a <= plan[k].end}) = 1
            /\ SumLen(plan) = N

C1_Witness ==
    /\ LoopFinished
    /\ N = 7
    /\ batch_size = 3
    /\ Len(plan) = 3
    /\ \E k \in 1..Len(calls) : ~calls[k].ok

\* C2: the number of batches is ceil(N / batch_size), the least k with
\* k * batch_size >= N, and the batch with 0-based ordinal b is
\* start = b * batch_size + 1, end = min((b + 1) * batch_size, N).
C2_CountAndBounds ==
    InLoop =>
        /\ total_batches * batch_size >= N
        /\ (total_batches - 1) * batch_size < N
        /\ Len(plan) <= total_batches
        /\ LoopFinished => Len(plan) = total_batches
        /\ \A b \in 0..(Len(plan) - 1) :
            /\ plan[b + 1].ordinal = b
            /\ plan[b + 1].start = b * batch_size + 1
            /\ plan[b + 1].end = (IF (b + 1) * batch_size <= N
                                  THEN (b + 1) * batch_size ELSE N)

C2_Witness ==
    /\ LoopFinished
    /\ N % batch_size # 0
    /\ total_batches >= 3
    /\ Len(plan) = total_batches

\* C3: with N = 0 the plan is empty for every batch_size >= 1: the loop runs no
\* iteration and none of select_files, apply_tags, advance is called.
C3_EmptyPlan ==
    (N = 0 /\ InLoop) =>
        /\ total_batches = 0
        /\ plan = <<>>
        /\ BatchCalls = <<>>
        /\ pc \in {"loop", "done"}

C3_Witness ==
    /\ N = 0
    /\ LoopFinished
    /\ batch_size = 3
    /\ BatchCalls = <<>>

\* The batches as (displayed ordinal, start, end): the loop prints batch_num + 1.
PlanTriples == [k \in 1..Len(plan) |-> <<plan[k].ordinal + 1, plan[k].start, plan[k].end>>]

PlanRanges == [k \in 1..Len(plan) |-> <<plan[k].start, plan[k].end>>]

\* C4: plan(7, 3) is exactly the three batches (ordinal, start, end) =
\* (1,1,3), (2,4,6), (3,7,7).
C4_PlanSevenThree ==
    (N = 7 /\ batch_size = 3 /\ LoopFinished) =>
        PlanTriples = << <<1, 1, 3>>, <<2, 4, 6>>, <<3, 7, 7>> >>

C4_Witness ==
    /\ N = 7
    /\ batch_size = 3
    /\ LoopFinished
    /\ Len(plan) = 3
    /\ Len(BatchCalls) = 8

\* C5: every batch but the final one holds exactly batch_size artifacts, the
\* final one between 1 and batch_size; when N is a multiple of batch_size the
\* final batch is full too, and plan(6, 2) is [(1,2), (3,4), (5,6)].
C5_OnlyLastShorter ==
    InLoop =>
        /\ \A k \in 1..Len(plan) :
            /\ k < total_batches => BatchLen(plan[k]) = batch_size
            /\ k = total_batches =>
                /\ BatchLen(plan[k]) \in 1..batch_size
                /\ (N % batch_size = 0) => BatchLen(plan[k]) = batch_size
                /\ (N % batch_size # 0) => BatchLen(plan[k]) = N % batch_size
        /\ (N = 6 /\ batch_size = 2 /\ LoopFinished) =>
                PlanRanges = << <<1, 2>>, <<3, 4>>, <<5, 6>> >>

C5_Witness ==
    /\ N = 6
    /\ batch_size = 2
    /\ LoopFinished
    /\ Len(plan) = 3
    /\ BatchLen(plan[3]) = 2

----------------------------------------------------------------------------
(* Properties of the upload session *)

CallsOf(op) == SelectSeq(calls, LAMBDA c : c.op = op)

IsCall(c, op, b) == c.op = op /\ c.batch = b

SelectSucceeded(b) ==
    \E k \in 1..Len(calls) : IsCall(calls[k], "select_files", b) /\ calls[k].ok

\* C7 as stated: a session with at least one batch that ran through has called
\* advance exactly (number of batches - 1) times.
C7_ExactlyBatchesMinusOne ==
    (LoopFinished /\ total_batches >= 1) => Len(CallsOf("advance")) = total_batches - 1

\* C7, amended: advance is called only right after the apply_tags of a batch that
\* is not the last one, hence at most (number of batches - 1) times and never
\* after the last batch's apply_tags; a session that ran through has called it
\* once for every non-final batch whose select_files succeeded, which is
\* (number of batches - 1) times when none of them failed.
C7_AdvanceBetweenBatches ==
    InLoop =>
        /\ \A k \in 1..Len(BatchCalls) :
            BatchCalls[k].op = "advance" =>
                /\ BatchCalls[k].batch < total_batches - 1
                /\ k > 1
                /\ IsCall(BatchCalls[k - 1], "apply_tags", BatchCalls[k].batch)
        /\ \A j, k \in 1..Len(BatchCalls) :
            (j < k /\ IsCall(BatchCalls[j], "apply_tags", total_batches - 1)) =>
                BatchCalls[k].op # "advance"
        /\ total_batches >= 1 => Len(CallsOf("advance")) <= total_batches - 1
        /\ total_batches = 0 => Len(CallsOf("advance")) = 0
        /\ LoopFinished =>
            Len(CallsOf("advance")) =
                Cardinality({b \in 0..(total_batches - 2) : SelectSucceeded(b)})
        /\ (LoopFinished /\ total_batches >= 1
                /\ \A b \in 0..(total_batches - 2) : SelectSucceeded(b)) =>
            Len(CallsOf("advance")) = total_batches - 1

C7_Witness ==
    /\ LoopFinished
    /\ total_batches = 3
    /\ ~SelectSucceeded(0)
    /\ SelectSucceeded(1)
    /\ SelectSucceeded(2)
    /\ Len(CallsOf("advance")) = 1

\* C8: the first failure of select_files halts the session: no call of
\* select_files, apply_tags or advance follows a select_files that failed.
C8_HaltsAtFirstFailure ==
    InLoop =>
        \A k \in 1..Len(BatchCalls) :
            (BatchCalls[k].op = "select_files" /\ ~BatchCalls[k].ok) => k = Len(BatchCalls)

\* C10: the session is the linear sequence START -> (SELECT -> TAG -> [ADVANCE])*
\* -> DONE: apply_tags comes right after the successful select_files of its batch,
\* advance right after the apply_tags of its batch, and the select_files of a
\* batch after the first right after the advance of the batch before it.
C10_LinearSequence ==
    InLoop =>
        \A k \in 1..Len(BatchCalls) :
            LET c == BatchCalls[k]
            IN /\ c.op = "apply_tags" =>
                    /\ k > 1
                    /\ IsCall(BatchCalls[k - 1], "select_files", c.batch)
                    /\ BatchCalls[k - 1].ok
               /\ c.op = "advance" =>
                    /\ k > 1
                    /\ IsCall(BatchCalls[k - 1], "apply_tags", c.batch)
               /\ c.op = "select_files" =>
                    IF c.batch = 0 THEN k = 1
                    ELSE /\ k > 1
                         /\ IsCall(BatchCalls[k - 1], "advance", c.batch - 1)

\* C15: a fail-safe trip of pyautogui inside select_files ends the session at
\* once: no select_files, apply_tags or advance call follows the call it ended.
C15_FailSafeEndsSession ==
    InLoop =>
        \A k \in 1..Len(BatchCalls) : BatchCalls[k].tripped => k = Len(BatchCalls)

\* C17: select_files navigates to the artifact directory in the call for batch 0
\* only, hence at most once in a session, and always when that call succeeds;
\* the calls for the batches after it enter file names only.
C17_NavigationInFirstBatchOnly ==
    InLoop =>
        /\ \A k \in 1..Len(calls) :
                calls[k].nav => IsCall(calls[k], "select_files", 0)
        /\ Cardinality({k \in 1..Len(calls) : calls[k].nav}) <= 1
        /\ \A k \in 1..Len(calls) :
                (IsCall(calls[k], "select_files", 0) /\ calls[k].ok) => calls[k].nav

C17_Witness ==
    /\ LoopFinished
    /\ \E j, k \in 1..Len(calls) :
            /\ IsCall(calls[j], "select_files", 0) /\ calls[j].nav
            /\ IsCall(calls[k], "select_files", 1) /\ calls[k].ok /\ ~calls[k].nav
            /\ calls[k].start > calls[j].end

\* where the k-th tag starts in the pasted text, less one
RECURSIVE TagOffset(_, _)
TagOffset(tags, k) == IF k = 1 THEN 0 ELSE TagOffset(tags, k - 1) + Len(tags[k - 1]) + 1

\* text holds every tag of tags, in order, with one space between neighbours
HoldsAllTags(text, tags) ==
    /\ Len(text) = TagOffset(tags, Len(tags) + 1) - 1
    /\ \A k \in 1..Len(tags) :
            /\ SubSeq(text, TagOffset(tags, k) + 1, TagOffset(tags, k) + Len(tags[k])) = tags[k]
            /\ k < Len(tags) => text[TagOffset(tags, k + 1)] = " "

C19_OnlyOrdinalChanges ==
    /\ [][(pc \in SessionPcs /\ pc' \in SessionPcs) =>
                /\ UNCHANGED <<TAGS, gen, N, urls, i, video_tags>>
                /\ pc # "calc" => UNCHANGED <<batch_size, total_batches>>
                /\ (InLoop /\ batch_num' # batch_num) => batch_num' = batch_num + 1]_vars
    /\ [](pc \in SessionPcs =>
                /\ gen.called
                /\ TAGS # <<>>
                /\ \A j, k \in 1..Len(calls) :
                        (calls[j].op = "apply_tags" /\ calls[k].op = "apply_tags") =>
                            calls[j].pasted = calls[k].pasted
                /\ \A j, k \in 1..Len(plan) : j < k => plan[j].ordinal < plan[k].ordinal)

C19_Witness ==
    /\ LoopFinished
    /\ total_batches = 3
    /\ \E j, k \in 1..Len(calls) :
            /\ IsCall(calls[j], "apply_tags", 0)
            /\ IsCall(calls[k], "apply_tags", 2)
            /\ calls[j].pasted = calls[k].pasted

\* C26: a select_files call that entered the file names of a batch after the
\* first one (and succeeded) comes after a select_files call of batch 0 that
\* navigated to the artifact directory.
C26_LaterBatchesAfterNavigation ==
    InLoop =>
        \A k \in 1..Len(calls) :
            (calls[k].op = "select_files" /\ calls[k].batch >= 1 /\ calls[k].ok) =>
                \E j \in 1..(k - 1) : IsCall(calls[j], "select_files", 0) /\ calls[j].nav

\* an upload session whose steps are eventually taken
SpecUploadFair == InitUpload /\ [][NextUpload]_vars /\ WF_vars(NextUpload)

\* process_tenor_upload returned, or an exception left it
SessionOver == pc \in {"done", "exit"}

\* C22: every upload session comes to an end; no batch ordinal is planned twice
\* and batch_num never goes back; a session whose loop ran through at least one
\* batch ended right after the apply_tags of the last batch or right after a
\* select_files that failed.
C22_SessionTerminates ==
    /\ <>SessionOver
    /\ [](InLoop =>
            /\ \A j, k \in 1..Len(plan) : j < k => plan[j].ordinal < plan[k].ordinal
            /\ batch_num <= total_batches
            /\ Len(BatchCalls) <= 3 * total_batches
            /\ (LoopFinished /\ total_batches >= 1) =>
                    LET last == BatchCalls[Len(BatchCalls)]
                    IN /\ BatchCalls # <<>>
                       /\ \/ IsCall(last, "apply_tags", total_batches - 1)
                          \/ last.op = "select_files" /\ ~last.ok)
    /\ [][InLoop /\ InLoop' => batch_num' >= batch_num]_vars

C22_Witness ==
    /\ LoopFinished
    /\ total_batches = 3
    /\ N = 7
    /\ IsCall(BatchCalls[Len(BatchCalls)], "apply_tags", 2)
    /\ ~SelectSucceeded(0)

----------------------------------------------------------------------------
(* Properties of the tag generator inside the upload session *)

\* the service raised, or its answer holds no tag
GenerationFailed == gen.called /\ (gen.raised \/ ParseTags(gen.text) = <<>>)

\* C11: a failure of the tag-generation service (it raises, or its answer holds
\* no tag) does not end the processing of the media: setup returns to
\* process_tenor_upload, which goes on to navigate_to_tenor, no result is
\* recorded for the media, and TAGS is a non-empty fallback list of non-empty
\* tags - the default list, or the hashed video tags followed by defaults.
C11_GenerationFailureRecovered ==
    /\ [](GenerationFailed =>
            /\ pc \in SessionPcs
            /\ pc = "navigate" => ENABLED Navigate
            /\ TAGS # <<>>
            /\ \A k \in 1..Len(TAGS) : TAGS[k] # <<>>
            /\ (~gen.raised \/ video_tags = <<>>) => TAGS = DefaultTags
            /\ (gen.raised /\ video_tags # <<>>) =>
                    /\ \A k \in 1..Min(Len(video_tags), TagTarget) :
                            TAGS[k] = HashTag(video_tags[k])
                    /\ \A k \in (Len(video_tags) + 1)..Len(TAGS) : InSeq(TAGS[k], DefaultTags))
    /\ [][(pc = "setup_tags" /\ gen'.called) =>
                /\ pc' = "navigate"
                /\ results' = results
                /\ i' = i]_vars

C11_Witness ==
    /\ GenerationFailed
    /\ gen.raised
    /\ \E k \in 1..Len(calls) : IsCall(calls[k], "apply_tags", 0)

----------------------------------------------------------------------------
(* Properties of process_single_video *)

UploadStarts == pc = "setup_tags"

\* C9: when the output directory of the media already held artifacts, the upload
\* session starts without video_to_gifs having been invoked, with N the number of
\* those artifacts, and the artifact set is what it was.
C9_ExistingArtifactsReused ==
    (UploadStarts /\ start_disk # {}) =>
        /\ ~segmented
        /\ N = Cardinality(start_disk)
        /\ disk[CurMedia] = start_disk

\* process_single_video returns because the download failed
DownloadFails == pc = "download" /\ pc' \notin {"check", "segment"}

\* C12: when the download of a source media fails, the media is skipped: False is
\* recorded for it, no segmentation, tag generation or upload step runs for it
\* (the artifact directories, N and TAGS are untouched and no collaborator is
\* called), and the run goes on with the download of the next URL when there is
\* one; tenorgif.py, with its single URL, and the last URL end the run.
C12_DownloadFailureSkips ==
    [][DownloadFails =>
            /\ results' = Append(results, FALSE)
            /\ successful_processed' = successful_processed
            /\ UNCHANGED <<disk, dirs, N, TAGS>>
            /\ ~segmented'
            /\ ~gen'.called
            /\ calls' = <<>>
            /\ IF script # "tenorgif" /\ i < Len(urls)
               THEN i' = i + 1 /\ pc' = "download"
               ELSE i' = i /\ pc' = "exit"]_vars

C12_Witness ==
    /\ script = "main"
    /\ pc = "download"
    /\ i = 2
    /\ results = <<FALSE>>
    /\ N = 0
    /\ TAGS = <<>>
    /\ dirs = {}
    /\ \A m \in Media : disk[m] = {}

\* C13: when segmentation left the media without any artifact, the upload stage
\* does not run for it: the tag generator is not called and no collaborator
\* (navigation, select_files, apply_tags, advance) is called.
C13_NoUploadWithoutArtifacts ==
    (segmented /\ disk[CurMedia] = {}) =>
        /\ ~gen.called
        /\ calls = <<>>

\* the processing of the current URL leaves its upload session
SessionEnds ==
    /\ pc \in SessionPcs \cup {"setup_tags"}
    /\ pc' \notin SessionPcs \cup {"setup_tags"}

\* C14: a failure of a UI-automation step never stops the run over the URLs: a
\* select_files that fails leaves the session running, an exception that leaves
\* the session records False for the URL, and in each case the run goes on to
\* the download of the next URL while there is one; main.py and cerebras.py end
\* only after every URL has its result.
C14_RunContinuesAfterUiFailure ==
    /\ [][SessionEnds =>
                /\ Len(results') = Len(results) + 1
                /\ IF script # "tenorgif" /\ i < Len(urls)
                   THEN i' = i + 1 /\ pc' = "download"
                   ELSE pc' = "exit"]_vars
    /\ [][(pc = "select" /\ Len(calls') = Len(calls) + 1) =>
                /\ pc' \in SessionPcs
                /\ i' = i]_vars
    /\ []((pc = "exit" /\ script # "tenorgif") => Len(results) = Len(urls))

\* the session of the first URL was left by an exception after its tags were
\* set, and the run is at the download of the second URL
C14_Witness ==
    /\ i = 2
    /\ results = <<FALSE>>
    /\ TAGS # <<>>
    /\ N >= 1
    /\ pc = "download"

\* C16: after segmentation the N the upload session works on is the number of
\* clips that were produced, and the artifacts of the media are output_1.gif to
\* output_N.gif without a gap.
C16_CountMatchesArtifacts ==
    (UploadStarts /\ segmented) =>
        /\ N = Cardinality(disk[CurMedia])
        /\ disk[CurMedia] = 1..N

\* C24: when video_to_gifs returns before it computed num_clips (the directory
\* or the duration failed), the upload session of the media does not work on a
\* count that an earlier media left in N.
C24_NoLeftoverCount ==
    (UploadStarts /\ segmented /\ ~counted) => N = 0

ReturnsTrue ==
    /\ Len(results') = Len(results) + 1
    /\ results'[Len(results')]
    /\ successful_processed' = successful_processed + 1

\* C27: process_single_video returns True only for a media with at least one
\* batch whose every batch had select_files succeed and apply_tags run.
C27_TrueOnlyIfAllBatchesDone ==
    [][ReturnsTrue =>
            /\ total_batches >= 1
            /\ \A b \in 0..(total_batches - 1) :
                    /\ SelectSucceeded(b)
                    /\ \E k \in 1..Len(calls) : IsCall(calls[k], "apply_tags", b)]_vars

\* C28: when robust_directory_creation returned a truthy value to video_to_gifs
\* (the function went on to compute num_clips), the requested output directory
\* exists.
C28_TruthyMeansDirectoryExists ==
    (segmented /\ counted /\ script # "tenorgif") => CurMedia \in dirs

CountOf(q, x) == Cardinality({k \in 1..Len(q) : q[k] = x})

----------------------------------------------------------------------------
(* extract_urls_from_input *)

\* the pipeline variables while an input line or a file name is worked on
PipelineIdle ==
    /\ script = "main"
    /\ urls = <<1>>
    /\ i = 1
    /\ successful_processed = 0
    /\ results = <<>>
    /\ disk = [m \in Media |-> {}]
    /\ dirs = {}
    /\ video_tags = <<>>
    /\ found = 0
    /\ segmented = FALSE
    /\ counted = FALSE
    /\ start_disk = {}
    /\ N = 0
    /\ TAGS = <<>>
    /\ gen = NoGen
    /\ batch_size = 0
    /\ total_batches = 0
    /\ batch_num = 0
    /\ start_file = 0
    /\ end_file = 0
    /\ plan = <<>>
    /\ calls = <<>>

\* [^\s,]: a character that is neither whitespace nor a comma
IsSeparator(c) == c \in Whitespace \cup {","}

StartsWithAt(t, p, w) == p + Len(w) - 1 <= Len(t) /\ SubSeq(t, p, p + Len(w) - 1) = w

Http == <<"h", "t", "t", "p", ":", "/", "/">>
Https == <<"h", "t", "t", "p", "s", ":", "/", "/">>

\* https?:// at position p: the length of the scheme, 0 when there is none
SchemeLen(t, p) ==
    IF StartsWithAt(t, p, Https) THEN Len(Https)
    ELSE IF StartsWithAt(t, p, Http) THEN Len(Http)
    ELSE 0

\* url_pattern = r'https?://[^\s,]+' matched at position p: the last position of
\* the match (the + is greedy), 0 when the pattern does not match at p
MatchEnd(t, p) ==
    LET first == p + SchemeLen(t, p)
    IN IF SchemeLen(t, p) = 0 \/ first > Len(t) THEN 0
       ELSE IF IsSeparator(t[first]) THEN 0
       ELSE LET stops == {e \in first..Len(t) : IsSeparator(t[e])}
            IN IF stops = {} THEN Len(t)
               ELSE (CHOOSE e \in stops : \A f \in stops : e <= f) - 1

\* re.findall(url_pattern, user_input): the matches from left to right, the
\* search going on behind each match
RECURSIVE FindAllFrom(_, _)
FindAllFrom(t, p) ==
    IF p > Len(t) THEN <<>>
    ELSE IF MatchEnd(t, p) > 0
         THEN <<SubSeq(t, p, MatchEnd(t, p))>> \o FindAllFrom(t, MatchEnd(t, p) + 1)
         ELSE FindAllFrom(t, p + 1)

\* re.split(r'[,\s]+', user_input) without its empty pieces: the maximal runs of
\* characters that are no separators, in order
SplitOnSeparators(t) ==
    LET starts == {p \in 1..Len(t) : ~IsSeparator(t[p]) /\ (p = 1 \/ IsSeparator(t[p - 1]))}
        StartOf(k) == CHOOSE p \in starts : Cardinality({q \in starts : q <= p}) = k
        EndOf(p) == CHOOSE e \in p..Len(t) :
                        /\ \A f \in p..e : ~IsSeparator(t[f])
                        /\ e = Len(t) \/ IsSeparator(t[e + 1])
    IN [k \in 1..Cardinality(starts) |-> SubSeq(t, StartOf(k), EndOf(StartOf(k)))]

\* extract_urls_from_input(user_input)
ExtractUrlsFromInput(t) ==
    IF FindAllFrom(t, 1) # <<>> THEN FindAllFrom(t, 1)
    ELSE SelectSeq(SplitOnSeparators(t),
                   LAMBDA u : StartsWithAt(u, 1, Http) \/ StartsWithAt(u, 1, Https))

\* ALL_VIDEO_URLS = extract_urls_from_input(video_links_input)
ExtractUrls ==
    /\ pc = "extract"
    /\ found_urls' = ExtractUrlsFromInput(user_input)
    /\ pc' = "extracted"
    /\ UNCHANGED <<typed_urls, user_input, name, folder_name>>
    /\ UNCHANGED <<runVars, fsVars, videoVars, N, tagVars, loopVars, calls>>

MaxTyped == 3

\* the URLs a user types
TypedUrl(k) == IF k = 1 THEN Https \o <<"a">> ELSE Http \o <<"b">>

\* what a user puts between two URLs: a space, a comma, a comma and a space,
\* or nothing
InputSeparators == {<<" ">>, <<",">>, <<",", " ">>, <<>>}

\* the input line made of the URLs us with seps[k] between us[k] and us[k + 1]
RECURSIVE InputLine(_, _)
InputLine(us, seps) ==
    IF Len(us) = 1 THEN Head(us)
    ELSE Head(us) \o Head(seps) \o InputLine(Tail(us), Tail(seps))

InitExtract ==
    /\ pc = "extract"
    /\ \E n \in 1..MaxTyped :
        \E ks \in [1..n -> {1, 2}] :
        \E seps \in [1..(n - 1) -> InputSeparators] :
            /\ typed_urls = [k \in 1..n |-> TypedUrl(ks[k])]
            /\ user_input = InputLine([k \in 1..n |-> TypedUrl(ks[k])], seps)
    /\ found_urls = <<>>
    /\ name = <<>>
    /\ folder_name = <<>>
    /\ PipelineIdle

NextExtract == ExtractUrls

SpecExtract == InitExtract /\ [][NextExtract]_vars

\* C21: extract_urls_from_input returns every URL of the input line as an entry
\* of its own, in input order, whether the URLs are separated by spaces, by
\* commas, or follow each other without a separator.
C21_EveryUrlExtracted ==
    pc = "extracted" => found_urls = typed_urls

----------------------------------------------------------------------------
(* sanitize_filename *)

NameLimit == 150

UnknownVideo == <<"U", "n", "k", "n", "o", "w", "n", "_", "V", "i", "d", "e", "o">>

\* invalid_chars = '<>:"/\\|?*'
InvalidChars == {"<", ">", ":", "\"", "/", "\\", "|", "?", "*"}

\* re.sub(r'\s+', ' ', name): every run of whitespace becomes one space
CollapseWhitespace(t) ==
    LET marked == [k \in 1..Len(t) |->
                      IF t[k] \notin Whitespace THEN t[k]
                      ELSE IF k > 1 /\ t[k - 1] \in Whitespace THEN "drop"
                      ELSE " "]
    IN SelectSeq(marked, LAMBDA c : c # "drop")

\* for char in invalid_chars: name = name.replace(char, '')
RemoveInvalid(t) == SelectSeq(t, LAMBDA c : c \notin InvalidChars)

\* str.strip(chars): the characters of S removed from both ends
StripChars(t, S) ==
    LET keep == {k \in 1..Len(t) : t[k] \notin S}
    IN IF keep = {} THEN <<>>
       ELSE SubSeq(t, CHOOSE k \in keep : \A j \in keep : k <= j,
                      CHOOSE k \in keep : \A j \in keep : k >= j)

\* name.strip().strip('.').strip('-'): three strips, one after the other
StripEnds(t) == StripChars(StripChars(StripChars(t, Whitespace), {"."}), {"-"})

\* sanitize_filename(name)
SanitizeFilename(t) ==
    IF t = <<>> THEN UnknownVideo
    ELSE LET cleaned == RemoveInvalid(CollapseWhitespace(t))
             cut == IF Len(cleaned) > NameLimit THEN Take(cleaned, NameLimit) ELSE cleaned
         IN IF StripEnds(cut) = <<>> THEN UnknownVideo ELSE StripEnds(cut)

\* folder_name = sanitize_filename(...) + ".gifs"
Sanitize ==
    /\ pc = "sanitize"
    /\ folder_name' = SanitizeFilename(name)
    /\ pc' = "sanitized"
    /\ UNCHANGED <<typed_urls, user_input, found_urls, name>>
    /\ UNCHANGED <<runVars, fsVars, videoVars, N, tagVars, loopVars, calls>>

MaxNameLen == 3

\* the characters of a video title that matter to the clean-up
NameChars == {"a", " ", "\t", ".", "-", "?"}

ShortNames == UNION {[1..n -> NameChars] : n \in 0..MaxNameLen}

\* a title that reaches the length limit before its last characters
LongNames == {[k \in 1..(NameLimit - 1) |-> "a"] \o t : t \in ShortNames}

InitSanitize ==
    /\ pc = "sanitize"
    /\ name \in ShortNames \cup LongNames
    /\ folder_name = <<>>
    /\ typed_urls = <<>>
    /\ user_input = <<>>
    /\ found_urls = <<>>
    /\ PipelineIdle

NextSanitize == Sanitize

SpecSanitize == InitSanitize /\ [][NextSanitize]_vars

EndChars == {" ", ".", "-"}

\* C23: sanitize_filename returns a non-empty name of at most 150 characters that
\* holds none of < > : " / \ | ? * and neither starts nor ends with a space, a
\* dot or a hyphen.
C23_SanitizedNameIsClean ==
    pc = "sanitized" =>
        /\ folder_name # <<>>
        /\ Len(folder_name) <= NameLimit
        /\ \A k \in 1..Len(folder_name) : folder_name[k] \notin InvalidChars
        /\ folder_name[1] \notin EndChars
        /\ folder_name[Len(folder_name)] \notin EndChars

====
